---- MODULE Spec2Model ----
(***************************************************************************)
(* A model of the crypto analytics system: the Binance fetcher of          *)
(* src/core.py (fetch_data, _parse_binance_token, fetch_historical,        *)
(* _make_request, the TokenData validation), the analyzer of src/core.py   *)
(* (analyze_trend, calculate_correlation), the background polling loop of  *)
(* src/ui.py (toggle_fetching, fetch_loop) and its save to the store.      *)
(*                                                                         *)
(* Strings the code inspects (pair symbols) are sequences of characters,   *)
(* so that endswith, replace and upper are computed.  A JSON field value   *)
(* is a tagged record: a number or numeric string, a non-numeric string,   *)
(* null, or an absent key.  Prices and volumes of the snapshots are        *)
(* integers; the prices calculate_correlation reads are binary floats      *)
(* with rounded arithmetic.                                                *)
(*                                                                         *)
(* Left out of the state: BinanceTokensFetcher.tokens_cache, which         *)
(* fetch_data writes and nothing reads; the Tk widgets (table, status      *)
(* line, button), which only display; the clock (last_updated, the time    *)
(* of the LIVE line and of the report); the supply fields of TokenData,    *)
(* which are 0.0.                                                          *)
(***************************************************************************)
EXTENDS Integers, Sequences, FiniteSets, TLC

\* ------------------------------------------------------------------ bounds

\* The longest response body (number of ticker records or candles).
MaxTickers == 2

\* The largest value of the fetcher's limit.
MaxLimit == 2

\* The number of fetch_loop threads that may be started in one behaviour.
MaxThreads == 2

\* The longest snapshot list given to analyze_trend.
MaxData == 6

\* The longest price series of a token in the historical store.
MaxSeries == 3

\* The bits of the mantissa of a float of the model.
MantissaBits == 3

\* ------------------------------------------------------- program constants

\* response.status_code == 200
StatusOK == 200

\* symbol: str = Field(..., min_length=1, max_length=20)
SymbolMaxLen == 20

\* sorted_desc[:5], sorted_asc[:5]
TopCount == 5

\* HistoricalDocument.objects(token_id=...).limit(30)
CorrelationLimit == 30

\* ------------------------------------------------------------ JSON values

Num(n) == [k |-> "num", v |-> n]
NonNumeric == [k |-> "str", v |-> 0]
Null == [k |-> "null", v |-> 0]
Absent == [k |-> "absent", v |-> 0]

\* item.get(key, 0)
Get(val) == IF val.k = "absent" THEN Num(0) ELSE val

\* float(x): the number, or the exception float raises.
PyFloat(val) ==
    CASE val.k = "num" -> [exc |-> "none", v |-> val.v]
      [] val.k = "str" -> [exc |-> "ValueError", v |-> 0]
      [] OTHER -> [exc |-> "TypeError", v |-> 0]

\* ---------------------------------------------------------------- strings

USDT == <<"U", "S", "D", "T">>
BTC == <<"B", "T", "C">>
ETH == <<"E", "T", "H">>
BNB == <<"B", "N", "B">>
SOL == <<"S", "O", "L">>
ADA == <<"A", "D", "A">>
AVAX == <<"A", "V", "A", "X">>
USDC == <<"U", "S", "D", "C">>
FDUSD == <<"F", "D", "U", "S", "D">>
DAI == <<"D", "A", "I">>
UNI == <<"U", "N", "I">>
AAVE == <<"A", "A", "V", "E">>
CAKE == <<"C", "A", "K", "E">>
DOGE == <<"D", "O", "G", "E">>
SHIB == <<"S", "H", "I", "B">>
PEPE == <<"P", "E", "P", "E">>
AXS == <<"A", "X", "S">>
MANA == <<"M", "A", "N", "A">>
SAND == <<"S", "A", "N", "D">>

\* s.endswith(suffix)
EndsWith(s, suffix) ==
    /\ Len(s) >= Len(suffix)
    /\ SubSeq(s, Len(s) - Len(suffix) + 1, Len(s)) = suffix

\* s.replace(old, ''): every non-overlapping occurrence of old, scanning from
\* the left, is removed.
RECURSIVE Remove(_, _)
Remove(s, old) ==
    IF Len(s) < Len(old) THEN s
    ELSE IF SubSeq(s, 1, Len(old)) = old
         THEN Remove(SubSeq(s, Len(old) + 1, Len(s)), old)
         ELSE <<Head(s)>> \o Remove(Tail(s), old)

\* The lowercase letters the inputs use, with their uppercase.
UpperOf ==
    [c \in {"b", "t", "c", "x"} |->
        CASE c = "b" -> "B" [] c = "t" -> "T" [] c = "c" -> "C" [] OTHER -> "X"]

\* value.upper()
Upper(s) == [i \in 1..Len(s) |-> IF s[i] \in DOMAIN UpperOf THEN UpperOf[s[i]] ELSE s[i]]

\* ------------------------------------------------------------- sequences

Reverse(s) == [i \in 1..Len(s) |-> s[Len(s) + 1 - i]]

\* s[:n]
Slice(s, n) ==
    IF n >= 0
    THEN SubSeq(s, 1, IF n < Len(s) THEN n ELSE Len(s))
    ELSE SubSeq(s, 1, IF Len(s) + n > 0 THEN Len(s) + n ELSE 0)

\* ------------------------------------------------- TokenData (pydantic)

\* The constraints with a current_price that must be positive (gt=0).
TokenDataValidPositivePrice(f) ==
    /\ Len(f.symbol) >= 1
    /\ Len(f.symbol) <= SymbolMaxLen
    /\ Len(f.name) >= 1
    /\ f.current_price > 0
    /\ f.market_cap >= 0
    /\ f.total_volume >= 0

\* The constraints of the TokenData fields: symbol has 1 to 20 characters,
\* name at least one, current_price, market_cap and total_volume are >= 0.
TokenDataValid(f) ==
    /\ Len(f.symbol) >= 1
    /\ Len(f.symbol) <= SymbolMaxLen
    /\ Len(f.name) >= 1
    /\ f.current_price >= 0
    /\ f.market_cap >= 0
    /\ f.total_volume >= 0

\* TokenData(**f): the validated object, its symbol in uppercase, or a
\* ValidationError.
TokenData(f) ==
    IF TokenDataValid(f)
    THEN [exc |-> "none", tok |-> [f EXCEPT !.symbol = Upper(f.symbol)]]
    ELSE [exc |-> "ValidationError", tok |-> f]

\* ------------------------------------------------- CryptoAPIFetcher

\* The answer of _make_request: None, or the decoded JSON body.
None == [none |-> TRUE, json |-> <<>>]
Json(body) == [none |-> FALSE, json |-> body]

\* _make_request without the test of the status: any answer is decoded.
MakeRequestAnyStatus(resp) ==
    IF resp.kind # "http" THEN None ELSE Json(resp.body)

\* _make_request: an exception of session.get or response.json (network,
\* timeout, undecodable body) and a status other than 200 both give None.
MakeRequest(resp) ==
    IF resp.kind # "http" THEN None
    ELSE IF resp.status = StatusOK THEN Json(resp.body)
    ELSE None

\* not x, for the answer of _make_request: None and the empty list are falsy.
Falsy(data) == data.none \/ data.json = <<>>

\* ------------------------------------------------- BinanceTokensFetcher

\* safe_float(key) of _parse_binance_token.
SafeFloat(val) ==
    LET f == PyFloat(Get(val))
    IN  IF f.exc \in {"ValueError", "TypeError"} THEN 0 ELSE f.v

\* The category chain without its Meme branch.
CategoryWithoutMeme(symbol_short) ==
    IF symbol_short \in {BTC, ETH, BNB, SOL, ADA, AVAX} THEN "Layer 1"
    ELSE IF symbol_short \in {USDT, USDC, FDUSD, DAI} THEN "Stablecoin"
    ELSE IF symbol_short \in {UNI, AAVE, CAKE} THEN "DeFi"
    ELSE IF symbol_short \in {AXS, MANA, SAND} THEN "NFT/Gaming"
    ELSE "Unknown"

\* The category chain of _parse_binance_token.
Category(symbol_short) ==
    IF symbol_short \in {BTC, ETH, BNB, SOL, ADA, AVAX} THEN "Layer 1"
    ELSE IF symbol_short \in {USDT, USDC, FDUSD, DAI} THEN "Stablecoin"
    ELSE IF symbol_short \in {UNI, AAVE, CAKE} THEN "DeFi"
    ELSE IF symbol_short \in {DOGE, SHIB, PEPE} THEN "Meme"
    ELSE IF symbol_short \in {AXS, MANA, SAND} THEN "NFT/Gaming"
    ELSE "Unknown"

\* _parse_binance_token(item, rank): the TokenData, or the exception raised.
ParseBinanceToken(item, rank) ==
    IF item.symbol.k = "absent"
    THEN [exc |-> "KeyError", tok |-> <<>>]
    ELSE LET symbol_full == item.symbol.s
             symbol_short == Remove(symbol_full, USDT)
         IN  TokenData([id |-> symbol_full,
                        symbol |-> symbol_short,
                        name |-> symbol_short,
                        current_price |-> SafeFloat(item.lastPrice),
                        market_cap |-> 0,
                        market_cap_rank |-> rank,
                        total_volume |-> SafeFloat(item.quoteVolume),
                        price_change_24h |-> SafeFloat(item.priceChange),
                        price_change_percentage_24h |->
                            SafeFloat(item.priceChangePercent),
                        category |-> Category(symbol_short)])

\* The sort key of fetch_data: float(x.get('quoteVolume', 0)).
VolumeKey(x) == PyFloat(Get(x.quoteVolume))

\* A stable ascending insertion of x into the sorted s: x goes after the
\* elements with an equal key.
RECURSIVE InsertAsc(_, _)
InsertAsc(s, x) ==
    IF s = <<>> THEN <<x>>
    ELSE IF VolumeKey(x).v < VolumeKey(Head(s)).v
         THEN <<x>> \o s
         ELSE <<Head(s)>> \o InsertAsc(Tail(s), x)

RECURSIVE SortAsc(_)
SortAsc(s) ==
    IF s = <<>> THEN <<>>
    ELSE InsertAsc(SortAsc(SubSeq(s, 1, Len(s) - 1)), s[Len(s)])

\* A descending sort made of an ascending sort and one reversal: equal keys
\* come out in reverse source order.
SortDescendingUnstable(s) == Reverse(SortAsc(s))

\* list.sort(key=..., reverse=True) when every key is a number: the list is
\* reversed, sorted ascending and stable, and reversed again, which keeps
\* equal keys in their original order.
SortDescending(s) == Reverse(SortAsc(Reverse(s)))

\* The exception of the first key that fails, or "none".  list.sort computes
\* the keys in list order before it moves anything.
FirstKeyError(s) ==
    LET bad == {i \in 1..Len(s) : VolumeKey(s[i]).exc # "none"}
    IN  IF bad = {} THEN "none"
        ELSE VolumeKey(s[CHOOSE i \in bad : \A j \in bad : i <= j]).exc

IsUsdtPair(x) == EndsWith(x.symbol.s, USDT)

\* The loop of fetch_data over top_n: item i gets rank i, and an item whose
\* TokenData cannot be built is skipped.
IsParsed(r) == r.exc = "none"
ParseAll(top_n) ==
    LET parsed == [i \in 1..Len(top_n) |-> ParseBinanceToken(top_n[i], i)]
        kept == SelectSeq(parsed, IsParsed)
    IN  [i \in 1..Len(kept) |-> kept[i].tok]

\* fetch_data: the list returned, or the exception that leaves it.
\*   x['symbol'] of the filter raises KeyError for a record without symbol;
\*   a ValueError of the sort is swallowed and leaves the list in source
\*   order; a TypeError of the sort (a null volume) is not caught.
FetchData(resp, lim) ==
    LET all_tickers == MakeRequest(resp)
    IN  IF Falsy(all_tickers) THEN [exc |-> "none", tokens |-> <<>>]
        ELSE IF \E i \in 1..Len(all_tickers.json) :
                    all_tickers.json[i].symbol.k = "absent"
        THEN [exc |-> "KeyError", tokens |-> <<>>]
        ELSE LET usdt_pairs == SelectSeq(all_tickers.json, IsUsdtPair)
                 err == FirstKeyError(usdt_pairs)
             IN  IF err = "TypeError" THEN [exc |-> "TypeError", tokens |-> <<>>]
                 ELSE LET sorted == IF err = "ValueError" THEN usdt_pairs
                                    ELSE SortDescending(usdt_pairs)
                          top_n == Slice(sorted, lim)
                      IN  [exc |-> "none", tokens |-> ParseAll(top_n)]

\* One candle of fetch_historical: the HistoricalData, or the exception.
\* candle[0] / 1000 needs a number; float(candle[4]) and float(candle[5])
\* need a number or a numeric string; a short candle raises IndexError.
ParseCandle(candle, token_id) ==
    IF Len(candle) < 6 THEN [exc |-> "IndexError", point |-> <<>>]
    ELSE IF candle[1].k # "num" THEN [exc |-> "TypeError", point |-> <<>>]
    ELSE IF PyFloat(candle[5]).exc # "none"
    THEN [exc |-> PyFloat(candle[5]).exc, point |-> <<>>]
    ELSE IF PyFloat(candle[6]).exc # "none"
    THEN [exc |-> PyFloat(candle[6]).exc, point |-> <<>>]
    ELSE [exc |-> "none",
          point |-> [timestamp |-> [sec |-> candle[1].v \div 1000,
                                    ms |-> candle[1].v % 1000],
                     token_id |-> token_id,
                     price |-> PyFloat(candle[5]).v,
                     volume |-> PyFloat(candle[6]).v,
                     market_cap |-> 0]]

\* fetch_historical: the candles that parse, in the order of the response.
FetchHistorical(resp, token_id) ==
    LET data == MakeRequest(resp)
    IN  IF Falsy(data) THEN [exc |-> "none", tokens |-> <<>>]
        ELSE LET parsed == [i \in 1..Len(data.json) |->
                               ParseCandle(data.json[i], token_id)]
                 kept == SelectSeq(parsed, IsParsed)
             IN  [exc |-> "none",
                  tokens |-> [i \in 1..Len(kept) |-> kept[i].point]]

\* ------------------------------------------------------ binary floats

\* A Python float is a binary floating-point number: a signed mantissa of a
\* fixed number of bits times a power of two, every operation rounded to the
\* nearest such number, ties to the even mantissa.  The model keeps the
\* arithmetic and shortens the mantissa (53 bits in CPython).  The exponent
\* is unbounded: no overflow to inf, no underflow to zero.
\* A float is [m, e], its value m * 2^e, with m = 0 and e = 0 or
\* 2^(MantissaBits-1) <= |m| < 2^MantissaBits.
FZero == [m |-> 0, e |-> 0]

RECURSIVE Pow2(_)
Pow2(n) == IF n = 0 THEN 1 ELSE 2 * Pow2(n - 1)

\* The float nearest to (n / d) * 2^e, for n >= 0 and d > 0.
RECURSIVE RoundPos(_, _, _)
RoundPos(n, d, e) ==
    IF n = 0 THEN FZero
    ELSE IF n >= d * Pow2(MantissaBits) THEN RoundPos(n, 2 * d, e + 1)
    ELSE IF n < d * Pow2(MantissaBits - 1) THEN RoundPos(2 * n, d, e - 1)
    ELSE LET q == n \div d
             r == n % d
             m == IF 2 * r > d \/ (2 * r = d /\ q % 2 = 1) THEN q + 1 ELSE q
         IN  IF m = Pow2(MantissaBits)
             THEN [m |-> Pow2(MantissaBits - 1), e |-> e + 1]
             ELSE [m |-> m, e |-> e]

FNeg(a) == [m |-> 0 - a.m, e |-> a.e]

\* The float nearest to (n / d) * 2^e, for d > 0.
Round(n, d, e) == IF n < 0 THEN FNeg(RoundPos(0 - n, d, e)) ELSE RoundPos(n, d, e)

\* float(i)
FromInt(i) == Round(i, 1, 0)

\* a + b
FAdd(a, b) ==
    IF a.m = 0 THEN b
    ELSE IF b.m = 0 THEN a
    ELSE LET e == IF a.e < b.e THEN a.e ELSE b.e
         IN  Round(a.m * Pow2(a.e - e) + b.m * Pow2(b.e - e), 1, e)

\* a - b
FSub(a, b) == FAdd(a, FNeg(b))

\* a * b
FMul(a, b) == Round(a.m * b.m, 1, a.e + b.e)

\* a / b, for b # 0
FDiv(a, b) ==
    IF b.m < 0 THEN Round(0 - a.m, 0 - b.m, a.e - b.e)
    ELSE Round(a.m, b.m, a.e - b.e)

\* The mantissa M * 4^k and exponent e - 2k with M * 4^k of 2 * MantissaBits
\* - 1 or 2 * MantissaBits bits, so that its square root has MantissaBits.
RECURSIVE SqrtScale(_, _)
SqrtScale(M, e) ==
    IF M < Pow2(2 * MantissaBits - 2) THEN SqrtScale(4 * M, e - 2)
    ELSE [M |-> M, e |-> e]

\* math.sqrt(a), for a >= 0: the float nearest to the square root (a square
\* root is never halfway between two floats).
FSqrt(a) ==
    IF a.m = 0 THEN FZero
    ELSE LET even == IF a.e % 2 = 0 THEN [M |-> a.m, e |-> a.e]
                     ELSE [M |-> 2 * a.m, e |-> a.e - 1]
             s == SqrtScale(even.M, even.e)
             q == CHOOSE x \in 0..Pow2(MantissaBits) :
                     x * x <= s.M /\ s.M < (x + 1) * (x + 1)
             m == IF s.M > q * q + q THEN q + 1 ELSE q
         IN  IF m = Pow2(MantissaBits)
             THEN [m |-> Pow2(MantissaBits - 1), e |-> (s.e \div 2) + 1]
             ELSE [m |-> m, e |-> s.e \div 2]

\* sum(xs) of floats: the additions from left to right, each rounded.
RECURSIVE FSum(_)
FSum(xs) ==
    IF xs = <<>> THEN FZero
    ELSE FAdd(FSum(SubSeq(xs, 1, Len(xs) - 1)), xs[Len(xs)])

\* ------------------------------------------------- CryptoAnalyzer

\* The sort key of analyze_trend: x.price_change_percentage_24h or 0 (the
\* field is a float, and 0.0 or 0 is 0).
ChangeKey(x) == x.price_change_percentage_24h

\* A stable ascending insertion by ChangeKey.
RECURSIVE InsertByChange(_, _)
InsertByChange(s, x) ==
    IF s = <<>> THEN <<x>>
    ELSE IF ChangeKey(x) < ChangeKey(Head(s))
         THEN <<x>> \o s
         ELSE <<Head(s)>> \o InsertByChange(Tail(s), x)

\* sorted(data, key=..., reverse=False): stable.
RECURSIVE SortedAsc(_)
SortedAsc(s) ==
    IF s = <<>> THEN <<>>
    ELSE InsertByChange(SortedAsc(SubSeq(s, 1, Len(s) - 1)), s[Len(s)])

\* sorted(data, key=..., reverse=True): equal keys keep their input order.
SortedDesc(s) == Reverse(SortedAsc(Reverse(s)))

\* The entry of a snapshot in top_gainers and top_losers.
Entry(t) ==
    [symbol |-> t.symbol, price |-> t.current_price,
     change |-> t.price_change_percentage_24h]

\* sum(t.total_volume for t in data)
RECURSIVE SumVolume(_)
SumVolume(data) ==
    IF data = <<>> THEN 0 ELSE Head(data).total_volume + SumVolume(Tail(data))

\* {}: the dict without any key.
EmptyDict == [key \in {} |-> 0]

\* analyze_trend with the two lists not cut.
AnalyzeTrendUncut(data) ==
    IF data = <<>> THEN EmptyDict
    ELSE LET sorted_desc == SortedDesc(data)
             sorted_asc == SortedAsc(data)
         IN  [total_tokens |-> Len(data),
              total_volume |-> SumVolume(data),
              top_gainers |-> [i \in 1..Len(sorted_desc) |-> Entry(sorted_desc[i])],
              top_losers |-> [i \in 1..Len(sorted_asc) |-> Entry(sorted_asc[i])]]

\* analyze_trend(data): the report without its timestamp, or {} for no data.
\* Nothing in the try block raises for a list of TokenData.
AnalyzeTrend(data) ==
    IF data = <<>> THEN EmptyDict
    ELSE LET sorted_desc == Slice(SortedDesc(data), TopCount)
             sorted_asc == Slice(SortedAsc(data), TopCount)
         IN  [total_tokens |-> Len(data),
              total_volume |-> SumVolume(data),
              top_gainers |-> [i \in 1..Len(sorted_desc) |-> Entry(sorted_desc[i])],
              top_losers |-> [i \in 1..Len(sorted_asc) |-> Entry(sorted_asc[i])]]

\* The prices of the documents a query returns: objects(...).limit(30).
Prices(docs) == Slice(docs, CorrelationLimit)

\* calculate_correlation with the means taken before the series are cut.
CalculateCorrelationMeansFirst(docs1, docs2) ==
    LET prices1 == Prices(docs1)
        prices2 == Prices(docs2)
    IN  IF Len(prices1) < 2 \/ Len(prices2) < 2 THEN FZero
        ELSE LET min_len == IF Len(prices1) < Len(prices2) THEN Len(prices1)
                            ELSE Len(prices2)
                 mean1 == FDiv(FSum(prices1), FromInt(Len(prices1)))
                 mean2 == FDiv(FSum(prices2), FromInt(Len(prices2)))
                 p1 == Slice(prices1, min_len)
                 p2 == Slice(prices2, min_len)
                 numerator ==
                     FSum([i \in 1..min_len |->
                              FMul(FSub(p1[i], mean1), FSub(p2[i], mean2))])
                 sq1 == FSum([i \in 1..min_len |->
                                 FMul(FSub(p1[i], mean1), FSub(p1[i], mean1))])
                 sq2 == FSum([i \in 1..min_len |->
                                 FMul(FSub(p2[i], mean2), FSub(p2[i], mean2))])
                 denominator == FSqrt(FMul(sq1, sq2))
             IN  IF denominator.m = 0 THEN FZero
                 ELSE FDiv(numerator, denominator)

\* calculate_correlation on the two series the store returns.  The float
\* operations of the model raise nothing, so the except branch is not taken.
CalculateCorrelation(docs1, docs2) ==
    LET prices1 == Prices(docs1)
        prices2 == Prices(docs2)
    IN  IF Len(prices1) < 2 \/ Len(prices2) < 2 THEN FZero
        ELSE LET min_len == IF Len(prices1) < Len(prices2) THEN Len(prices1)
                            ELSE Len(prices2)
                 p1 == Slice(prices1, min_len)
                 p2 == Slice(prices2, min_len)
                 mean1 == FDiv(FSum(p1), FromInt(Len(p1)))
                 mean2 == FDiv(FSum(p2), FromInt(Len(p2)))
                 numerator ==
                     FSum([i \in 1..min_len |->
                              FMul(FSub(p1[i], mean1), FSub(p2[i], mean2))])
                 sq1 == FSum([i \in 1..min_len |->
                                 FMul(FSub(p1[i], mean1), FSub(p1[i], mean1))])
                 sq2 == FSum([i \in 1..min_len |->
                                 FMul(FSub(p2[i], mean2), FSub(p2[i], mean2))])
                 denominator == FSqrt(FMul(sq1, sq2))
             IN  IF denominator.m = 0 THEN FZero
                 ELSE FDiv(numerator, denominator)

\* ------------------------------------------------------------------ state

VARIABLES
    endpoint,       \* the endpoint the next request goes to
    response,       \* what the HTTP layer answers to it
    limit,          \* BinanceTokensFetcher.limit
    days,           \* the days argument of fetch_historical
    returned,       \* what the last fetch call returned or raised
    is_fetching,    \* CryptoAnalyticsApp.is_fetching
    started,        \* the number of fetch_loop threads started so far
    pc,             \* where each fetch_loop thread is
    tokens,         \* the local variable tokens of each fetch_loop thread
    cached_data,    \* CryptoAnalyticsApp.cached_data
    store,          \* the top_tokens collection: token_id -> document
    call,           \* the call of the analyzer or of TokenData under check
    result          \* what that call returned

fetcherVars == <<endpoint, response, limit, days, returned>>
appVars == <<is_fetching, started, pc, tokens, cached_data, store>>
analyzerVars == <<call, result>>
vars == <<endpoint, response, limit, days, returned, is_fetching, started, pc,
          tokens, cached_data, store, call, result>>

\* ------------------------------------------------------------ the inputs

Sym(s) == [k |-> "str", s |-> s]
NoSymbol == [k |-> "absent", s |-> <<>>]

\* The ticker records a response is built from: USDT pairs and another pair,
\* a record without symbol, volumes and prices that are numbers, text or null.
Tickers ==
    [symbol : {NoSymbol, Sym(BTC \o USDT), Sym(DOGE \o USDT), Sym(ETH \o BTC)},
     quoteVolume : {Num(1), Num(2), NonNumeric, Null},
     lastPrice : {Num(1), Num(-1), NonNumeric},
     priceChange : {Num(0)},
     priceChangePercent : {Num(0)}]

\* The candles a response is built from: [openTime, open, high, low, close,
\* volume], one with a close that is no number, one cut short.
Candles ==
    {<<Num(1000), Num(1), Num(1), Num(1), Num(c), Num(2)>> : c \in {1, 3}}
    \cup {<<Num(2500), Num(1), Num(1), Num(1), Num(2), Num(4)>>,
          <<Num(2500), Num(1), Num(1), Num(1), NonNumeric, Num(2)>>,
          <<Num(3000), Num(1), Num(1)>>}

SeqsUpTo(S, n) == UNION {[1..m -> S] : m \in 0..n}

\* The source is unavailable: session.get raises (a network error, a timeout),
\* or the status is not 200.  An error answer may still carry a body.
Unavailable(records) ==
    {[kind |-> "exception", status |-> 0, body |-> <<>>],
     [kind |-> "timeout", status |-> 0, body |-> <<>>]}
    \cup {[kind |-> "http", status |-> 500, body |-> b] :
             b \in SeqsUpTo(records, 1)}

RecordsOf(ep) == IF ep = "klines" THEN Candles ELSE Tickers

Responses(ep) ==
    Unavailable(RecordsOf(ep)) \cup
    {[kind |-> "http", status |-> StatusOK, body |-> b] :
        b \in SeqsUpTo(RecordsOf(ep), MaxTickers)}

\* The request of fetch_historical without its limit: the server applies
\* its default of 500 candles.
KlinesParamsDefaultLimit(token_id, n) ==
    [symbol |-> token_id, interval |-> "1d", limit |-> 500]

\* params of fetch_historical
KlinesParams(token_id, n) ==
    [symbol |-> token_id, interval |-> "1d", limit |-> n]

\* The open times of the candles of a body go up.
Ascending(b) == \A i, j \in 1..Len(b) : i < j => b[i][1].v < b[j][1].v

\* What the klines endpoint may answer to params: it is unavailable, or it
\* sends at most params.limit candles, the oldest first.
KlinesResponses(params) ==
    Unavailable(Candles) \cup
    {[kind |-> "http", status |-> StatusOK, body |-> b] :
        b \in {c \in SeqsUpTo(Candles, MaxTickers) :
                  Len(c) <= params.limit /\ Ascending(c)}}

NotCalled == [called |-> FALSE, exc |-> "none", tokens |-> <<>>]

\* No call of the analyzer is under check.
NoCall == [fn |-> "none"]
NoResult == [returned |-> FALSE]
AnalyzerIdle == call = NoCall /\ result = NoResult

\* ----------------------------------------------------- the fetcher alone

AppInit ==
    /\ is_fetching = FALSE
    /\ started = 0
    /\ pc = [t \in 1..MaxThreads |-> "unborn"]
    /\ tokens = [t \in 1..MaxThreads |-> <<>>]
    /\ cached_data = <<>>
    /\ store = <<>>

InitFetch ==
    /\ endpoint \in {"ticker/24hr", "klines"}
    /\ days \in IF endpoint = "klines" THEN 1..MaxTickers ELSE {7}
    /\ response \in IF endpoint = "klines"
                    THEN KlinesResponses(KlinesParams(BTC \o USDT, days))
                    ELSE Responses(endpoint)
    /\ limit \in IF endpoint = "klines" THEN {MaxLimit} ELSE 0..MaxLimit
    /\ returned = NotCalled
    /\ AppInit
    /\ AnalyzerIdle

\* One call of fetch_data.
CallFetchData ==
    /\ endpoint = "ticker/24hr"
    /\ ~returned.called
    /\ LET r == FetchData(response, limit)
       IN  returned' = [called |-> TRUE, exc |-> r.exc, tokens |-> r.tokens]
    /\ UNCHANGED <<endpoint, response, limit, days>>
    /\ UNCHANGED appVars
    /\ UNCHANGED analyzerVars

\* One call of fetch_historical.
CallFetchHistorical ==
    /\ endpoint = "klines"
    /\ ~returned.called
    /\ LET r == FetchHistorical(response, BTC \o USDT)
       IN  returned' = [called |-> TRUE, exc |-> r.exc, tokens |-> r.tokens]
    /\ UNCHANGED <<endpoint, response, limit, days>>
    /\ UNCHANGED appVars
    /\ UNCHANGED analyzerVars

NextFetch == CallFetchData \/ CallFetchHistorical

SpecFetch == InitFetch /\ [][NextFetch]_vars

\* ------------------------------------------- one ticker, many symbols

\* The base symbols of the pairs: every symbol the category chain names, one
\* it does not name, one in lowercase, one that contains USDT itself.
BaseSymbols ==
    {BTC, ETH, BNB, SOL, ADA, AVAX, USDT, USDC, FDUSD, DAI, UNI, AAVE, CAKE,
     DOGE, SHIB, PEPE, AXS, MANA, SAND,
     <<"X">>, <<"b", "t", "c">>, USDT \o <<"B">>}

\* A well-formed record of a USDT pair for each base symbol.
SymbolTickers ==
    [symbol : {Sym(b \o USDT) : b \in BaseSymbols},
     quoteVolume : {Num(1), Num(2)},
     lastPrice : {Num(0), Num(1)},
     priceChange : {Num(0)},
     priceChangePercent : {Num(0)}]

\* The source answers with one record.
InitSymbol ==
    /\ endpoint = "ticker/24hr"
    /\ response \in {[kind |-> "http", status |-> StatusOK, body |-> <<x>>] :
                       x \in SymbolTickers}
    /\ limit \in 1..MaxLimit
    /\ days = 7
    /\ returned = NotCalled
    /\ AppInit
    /\ AnalyzerIdle

SpecSymbol == InitSymbol /\ [][CallFetchData]_vars

\* ------------------------------------------- the analyzer and TokenData

\* The snapshots given to analyze_trend: the three of test_analysis_logic
\* and a fourth with the change of the first.
Snapshot(sym, price, change, volume) ==
    [id |-> sym \o USDT, symbol |-> sym, current_price |-> price,
     price_change_percentage_24h |-> change, total_volume |-> volume]

Snapshots ==
    {Snapshot(BTC, 50000, 5, 3), Snapshot(ETH, 3000, -2, 2),
     Snapshot(DOGE, 1, 10, 1), Snapshot(SOL, 100, 5, 1)}

\* The prices of the historical documents.
PriceValues == {FromInt(1), FromInt(3), FromInt(5)}

\* The keyword arguments TokenData is constructed with: symbols that are
\* empty, lowercase, uppercase and too long, prices and volumes around 0.
TokenFields ==
    [id : {<<"t", "e", "s", "t">>},
     symbol : {<<>>, <<"b", "t", "c">>, BTC, <<"X">>,
               [i \in 1..(SymbolMaxLen + 1) |-> "X"]},
     name : {<<>>, <<"X">>},
     current_price : {-5, 0, 10},
     market_cap : {0},
     total_volume : {-1, 0, 1}]

AnalyzerCalls ==
    {[fn |-> "analyze_trend", data |-> d] : d \in SeqsUpTo(Snapshots, MaxData)}
    \cup {[fn |-> "calculate_correlation", docs1 |-> a, docs2 |-> b] :
             a \in SeqsUpTo(PriceValues, MaxSeries),
             b \in SeqsUpTo(PriceValues, MaxSeries)}
    \cup {[fn |-> "TokenData", fields |-> f] : f \in TokenFields}

InitAnalyzer ==
    /\ call \in AnalyzerCalls
    /\ result = NoResult
    /\ endpoint = "ticker/24hr"
    /\ response = [kind |-> "timeout", status |-> 0, body |-> <<>>]
    /\ limit = MaxLimit
    /\ days = 7
    /\ returned = NotCalled
    /\ AppInit

\* One call of analyze_trend.
CallAnalyzeTrend ==
    /\ call.fn = "analyze_trend"
    /\ ~result.returned
    /\ result' = [returned |-> TRUE, value |-> AnalyzeTrend(call.data)]
    /\ UNCHANGED <<call, fetcherVars, appVars>>

\* One call of calculate_correlation, the store holding the two series.
CallCalculateCorrelation ==
    /\ call.fn = "calculate_correlation"
    /\ ~result.returned
    /\ result' = [returned |-> TRUE,
                  value |-> CalculateCorrelation(call.docs1, call.docs2)]
    /\ UNCHANGED <<call, fetcherVars, appVars>>

\* One construction of a TokenData.
ConstructTokenData ==
    /\ call.fn = "TokenData"
    /\ ~result.returned
    /\ result' = [returned |-> TRUE, value |-> TokenData(call.fields)]
    /\ UNCHANGED <<call, fetcherVars, appVars>>

NextAnalyzer ==
    \/ CallAnalyzeTrend
    \/ CallCalculateCorrelation
    \/ ConstructTokenData

SpecAnalyzer == InitAnalyzer /\ [][NextAnalyzer]_vars

\* ------------------------------------------------ the application (ui.py)

Threads == 1..MaxThreads

Ticker(sym, vol, price, change) ==
    [symbol |-> sym, quoteVolume |-> vol, lastPrice |-> price,
     priceChange |-> change, priceChangePercent |-> change]

Ok(body) == [kind |-> "http", status |-> StatusOK, body |-> body]

\* What a poll of the loop may be answered with: the source is down, one
\* pair, two pairs out of volume order with another price and change of the
\* first, a record without symbol (fetch_data raises KeyError).
LoopResponses ==
    {[kind |-> "timeout", status |-> 0, body |-> <<>>],
     Ok(<<Ticker(Sym(BTC \o USDT), Num(1), Num(1), Num(0))>>),
     Ok(<<Ticker(Sym(BTC \o USDT), Num(1), Num(2), Num(1)),
          Ticker(Sym(DOGE \o USDT), Num(2), Num(1), Num(0))>>),
     Ok(<<Ticker(NoSymbol, Num(1), Num(1), Num(0))>>)}

Init ==
    /\ endpoint = "ticker/24hr"
    /\ response = [kind |-> "timeout", status |-> 0, body |-> <<>>]
    /\ limit = MaxLimit
    /\ days = 7
    /\ returned = NotCalled
    /\ AppInit
    /\ AnalyzerIdle

\* toggle_fetching starting a thread whatever the flag says.
StartStreamUnguarded ==
    /\ started < MaxThreads
    /\ is_fetching' = TRUE
    /\ started' = started + 1
    /\ pc' = [pc EXCEPT ![started + 1] = "while"]
    /\ UNCHANGED <<tokens, cached_data, store>>
    /\ UNCHANGED fetcherVars
    /\ UNCHANGED analyzerVars

\* toggle_fetching, the flag clear: a new daemon thread enters fetch_loop.
StartStream ==
    /\ ~is_fetching
    /\ started < MaxThreads
    /\ is_fetching' = TRUE
    /\ started' = started + 1
    /\ pc' = [pc EXCEPT ![started + 1] = "while"]
    /\ UNCHANGED <<tokens, cached_data, store>>
    /\ UNCHANGED fetcherVars
    /\ UNCHANGED analyzerVars

\* A stop that waits for the consumer side of the loop thread (a lock shared
\* with the table scheduling and save_to_mongodb) before it clears the flag.
StopStreamWaits ==
    /\ is_fetching
    /\ \A t \in 1..MaxThreads : pc[t] \notin {"after_table", "save", "after_live"}
    /\ is_fetching' = FALSE
    /\ UNCHANGED <<started, pc, tokens, cached_data, store>>
    /\ UNCHANGED fetcherVars
    /\ UNCHANGED analyzerVars

\* toggle_fetching, the flag set: the flag is cleared and nothing else.
StopStream ==
    /\ is_fetching
    /\ is_fetching' = FALSE
    /\ UNCHANGED <<started, pc, tokens, cached_data, store>>
    /\ UNCHANGED fetcherVars
    /\ UNCHANGED analyzerVars

ToggleFetching == StartStream \/ StopStream

\* while self.is_fetching: the only read of the flag, and the only exit.
LoopTest(t) ==
    /\ pc[t] = "while"
    /\ pc' = [pc EXCEPT ![t] = IF is_fetching THEN "fetch" ELSE "done"]
    /\ UNCHANGED <<is_fetching, started, tokens, cached_data, store>>
    /\ UNCHANGED fetcherVars
    /\ UNCHANGED analyzerVars

\* The fetch step without the test of tokens: every result is published.
LoopFetchAlwaysPublish(t) ==
    /\ pc[t] = "fetch"
    /\ \E resp \in LoopResponses :
          LET r == FetchData(resp, limit)
          IN  /\ tokens' = IF r.exc = "none" THEN [tokens EXCEPT ![t] = r.tokens]
                           ELSE tokens
              /\ pc' = [pc EXCEPT ![t] =
                           IF r.exc # "none" THEN "except" ELSE "cache"]
    /\ UNCHANGED fetcherVars
    /\ UNCHANGED analyzerVars
    /\ UNCHANGED <<is_fetching, started, cached_data, store>>

\* tokens = self.fetcher.fetch_data(), then if tokens.  An exception of
\* fetch_data goes to the handler and leaves tokens as it was.
LoopFetch(t) ==
    /\ pc[t] = "fetch"
    /\ \E resp \in LoopResponses :
          LET r == FetchData(resp, limit)
          IN  /\ tokens' = IF r.exc = "none" THEN [tokens EXCEPT ![t] = r.tokens]
                           ELSE tokens
              /\ pc' = [pc EXCEPT ![t] =
                           IF r.exc # "none" THEN "except"
                           ELSE IF r.tokens # <<>> THEN "cache"
                           ELSE "after_lag"]
    /\ UNCHANGED fetcherVars
    /\ UNCHANGED analyzerVars
    /\ UNCHANGED <<is_fetching, started, cached_data, store>>

\* self.cached_data = tokens
LoopCache(t) ==
    /\ pc[t] = "cache"
    /\ cached_data' = tokens[t]
    /\ pc' = [pc EXCEPT ![t] = "after_table"]
    /\ UNCHANGED <<is_fetching, started, tokens, store>>
    /\ UNCHANGED fetcherVars
    /\ UNCHANGED analyzerVars

\* root.after(0, callback) from the loop thread: the callback is handed to
\* the main loop, where it touches the widgets only (they are not part of the
\* state), or Tk raises (no main loop, window destroyed).  After an
\* exception tokens is not read before the next fetch_data assigns it, so
\* the model clears it on the way to the handler.
Schedule(t, next) ==
    /\ \/ /\ pc' = [pc EXCEPT ![t] = next]
          /\ tokens' = tokens
       \/ /\ pc' = [pc EXCEPT ![t] = "except"]
          /\ tokens' = [tokens EXCEPT ![t] = <<>>]
    /\ UNCHANGED <<is_fetching, started, cached_data, store>>
    /\ UNCHANGED fetcherVars
    /\ UNCHANGED analyzerVars

\* self.root.after(0, self.update_token_table_safe, tokens)
LoopAfterTable(t) ==
    /\ pc[t] = "after_table"
    /\ Schedule(t, "save")

\* is_valid_token_id: a non-empty alphanumeric string of 5 to 64 characters
\* (the characters of the model are all letters).
IsValidTokenId(token_id) == Len(token_id) >= 5 /\ Len(token_id) <= 64

\* TokenDocument.from_pydantic
FromPydantic(dto) ==
    [token_id |-> dto.id, symbol |-> dto.symbol, name |-> dto.name,
     current_price |-> dto.current_price,
     market_cap_rank |-> dto.market_cap_rank,
     total_volume |-> dto.total_volume,
     price_change_24h |-> dto.price_change_24h,
     price_change_percentage_24h |-> dto.price_change_percentage_24h,
     category |-> dto.category]

\* An update that copies every field of the snapshot.
UpdateFromDtoEveryField(doc, data) ==
    [doc EXCEPT !.symbol = data.symbol,
                !.name = data.name,
                !.current_price = data.current_price,
                !.market_cap_rank = data.market_cap_rank,
                !.total_volume = data.total_volume,
                !.price_change_24h = data.price_change_24h,
                !.price_change_percentage_24h = data.price_change_percentage_24h,
                !.category = data.category]

\* TokenDocument.update_from_dto (last_updated is the clock)
UpdateFromDto(doc, data) ==
    [doc EXCEPT !.current_price = data.current_price,
                !.total_volume = data.total_volume,
                !.price_change_percentage_24h = data.price_change_percentage_24h]

\* The loop of save_to_mongodb over the tokens, on a store that answers.
RECURSIVE SaveAll(_, _)
SaveAll(st, toks) ==
    IF toks = <<>> THEN st
    ELSE LET t == Head(toks)
             st1 == IF ~IsValidTokenId(t.id) THEN st
                    ELSE IF t.id \in DOMAIN st
                    THEN [st EXCEPT ![t.id] = UpdateFromDto(@, t)]
                    ELSE [id \in DOMAIN st \cup {t.id} |->
                             IF id = t.id THEN FromPydantic(t) ELSE st[id]]
         IN  SaveAll(st1, Tail(toks))

\* self.save_to_mongodb(tokens): every exception is swallowed; with the
\* store unreachable nothing is saved.  tokens is not read again before the
\* next fetch_data assigns it, so the model clears it here.
LoopSave(t) ==
    /\ pc[t] = "save"
    /\ \E db_up \in BOOLEAN :
          store' = IF db_up THEN SaveAll(store, tokens[t]) ELSE store
    /\ pc' = [pc EXCEPT ![t] = "after_live"]
    /\ tokens' = [tokens EXCEPT ![t] = <<>>]
    /\ UNCHANGED <<is_fetching, started, cached_data>>
    /\ UNCHANGED fetcherVars
    /\ UNCHANGED analyzerVars

\* self.root.after(0, lambda: self.status_var.set(msg)), msg the LIVE line
LoopAfterLive(t) ==
    /\ pc[t] = "after_live"
    /\ Schedule(t, "sleep")

\* self.root.after(0, lambda: self.status_var.set("Network Lag... Retrying..."))
LoopAfterLag(t) ==
    /\ pc[t] = "after_lag"
    /\ Schedule(t, "sleep")

\* A loop that tests the flag on entry only: after the sleep it fetches.
LoopSleepSkipsTest(t) ==
    /\ pc[t] = "sleep"
    /\ pc' = [pc EXCEPT ![t] = "fetch"]
    /\ UNCHANGED <<is_fetching, started, tokens, cached_data, store>>
    /\ UNCHANGED fetcherVars
    /\ UNCHANGED analyzerVars

\* time.sleep(0.2), back to the test
LoopSleep(t) ==
    /\ pc[t] = "sleep"
    /\ pc' = [pc EXCEPT ![t] = "while"]
    /\ UNCHANGED <<is_fetching, started, tokens, cached_data, store>>
    /\ UNCHANGED fetcherVars
    /\ UNCHANGED analyzerVars

\* A handler that lets the exception end the thread.
LoopExceptExits(t) ==
    /\ pc[t] = "except"
    /\ pc' = [pc EXCEPT ![t] = "done"]
    /\ UNCHANGED <<is_fetching, started, tokens, cached_data, store>>
    /\ UNCHANGED fetcherVars
    /\ UNCHANGED analyzerVars

\* except Exception: log, time.sleep(1), back to the test
LoopExcept(t) ==
    /\ pc[t] = "except"
    /\ pc' = [pc EXCEPT ![t] = "while"]
    /\ UNCHANGED <<is_fetching, started, tokens, cached_data, store>>
    /\ UNCHANGED fetcherVars
    /\ UNCHANGED analyzerVars

\* One step of thread t in fetch_loop.
FetchLoop(t) ==
    \/ LoopTest(t)
    \/ LoopFetch(t)
    \/ LoopCache(t)
    \/ LoopAfterTable(t)
    \/ LoopSave(t)
    \/ LoopAfterLive(t)
    \/ LoopAfterLag(t)
    \/ LoopSleep(t)
    \/ LoopExcept(t)

Next ==
    \/ ToggleFetching
    \/ \E t \in Threads : FetchLoop(t)

Spec == Init /\ [][Next]_vars

\* ------------------------------------------------ claims on the fetcher

FetchDataReturned ==
    returned.called /\ endpoint = "ticker/24hr" /\ returned.exc = "none"

\* C1: the ranks of the list fetch_data returns are exactly 1..N, N its
\* length, also when a record of the top limit was dropped.
C1_RanksAreOneToN ==
    FetchDataReturned =>
        {returned.tokens[i].market_cap_rank : i \in 1..Len(returned.tokens)}
            = 1..Len(returned.tokens)

\* A USDT pair that fetch_data turns into a TokenData without substituting
\* anything: numeric volume and price, and a valid TokenData.
Parses(x) ==
    /\ PyFloat(Get(x.quoteVolume)).exc = "none"
    /\ PyFloat(Get(x.lastPrice)).exc = "none"
    /\ ParseBinanceToken(x, 1).exc = "none"

\* Every record of the body has a symbol and every USDT pair parses.
AllRecordsParse ==
    /\ response.kind = "http"
    /\ response.status = StatusOK
    /\ \A i \in 1..Len(response.body) :
          /\ response.body[i].symbol.k = "str"
          /\ IsUsdtPair(response.body[i]) => Parses(response.body[i])

UsdtPairs == SelectSeq(response.body, IsUsdtPair)

\* Where pair i of UsdtPairs stands after a stable sort by volume descending:
\* behind the pairs with a larger volume and the earlier pairs with the same.
StablePosition(i) ==
    1 + Cardinality({j \in 1..Len(UsdtPairs) :
            \/ PyFloat(Get(UsdtPairs[j].quoteVolume)).v
                   > PyFloat(Get(UsdtPairs[i].quoteVolume)).v
            \/ /\ PyFloat(Get(UsdtPairs[j].quoteVolume)).v
                      = PyFloat(Get(UsdtPairs[i].quoteVolume)).v
               /\ j < i})

Min(a, b) == IF a < b THEN a ELSE b

\* C4: when all records parse, fetch_data returns the first min(limit, M) of
\* the M USDT pairs stable-sorted by quoteVolume descending, the i-th
\* snapshot built from the i-th pair of that order.
C4_TopOfStableSort ==
    (returned.called /\ endpoint = "ticker/24hr" /\ AllRecordsParse) =>
        /\ returned.exc = "none"
        /\ Len(returned.tokens) = Min(limit, Len(UsdtPairs))
        /\ \A i \in 1..Len(UsdtPairs) :
              StablePosition(i) <= Len(returned.tokens) =>
                 LET t == returned.tokens[StablePosition(i)]
                 IN  /\ t.id = UsdtPairs[i].symbol.s
                     /\ t.total_volume = PyFloat(Get(UsdtPairs[i].quoteVolume)).v
                     /\ t.current_price = PyFloat(Get(UsdtPairs[i].lastPrice)).v

\* C4 witness: two pairs with the smaller volume first, both returned, so
\* the sort has moved the second pair to the front.
C4_Witness ==
    /\ returned.called /\ endpoint = "ticker/24hr" /\ AllRecordsParse
    /\ Len(UsdtPairs) = 2
    /\ PyFloat(Get(UsdtPairs[1].quoteVolume)).v
           < PyFloat(Get(UsdtPairs[2].quoteVolume)).v
    /\ UsdtPairs[1].symbol # UsdtPairs[2].symbol
    /\ Len(returned.tokens) = 2
    /\ returned.tokens[1].id = UsdtPairs[2].symbol.s

NonNumericField(x) ==
    \/ PyFloat(Get(x.quoteVolume)).exc = "ValueError"
    \/ PyFloat(Get(x.lastPrice)).exc = "ValueError"

\* C5: a record whose lastPrice or quoteVolume is not numeric is not in the
\* list fetch_data returns (no token carries the symbol of such a record,
\* unless another record of the response has the same symbol).
C5_NonNumericDropped ==
    (FetchDataReturned /\ response.kind = "http") =>
        \A i \in 1..Len(response.body) :
            LET x == response.body[i]
            IN  (/\ x.symbol.k = "str"
                 /\ NonNumericField(x)
                 /\ \A j \in 1..Len(response.body) :
                       j # i => response.body[j].symbol # x.symbol)
                => \A n \in 1..Len(returned.tokens) :
                       returned.tokens[n].id # x.symbol.s

\* A record is malformed: no symbol, a volume or a price that is no number,
\* a negative price.
Malformed(x) ==
    \/ x.symbol.k = "absent"
    \/ PyFloat(Get(x.quoteVolume)).exc # "none"
    \/ PyFloat(Get(x.lastPrice)).exc # "none"
    \/ PyFloat(Get(x.lastPrice)).v < 0

Without(s, i) == SubSeq(s, 1, i - 1) \o SubSeq(s, i + 1, Len(s))

\* C6: with exactly one malformed record in a successful response,
\* fetch_data does not raise and returns what it returns for the response
\* without that record.
C6_MalformedRecordIsolated ==
    (/\ returned.called /\ endpoint = "ticker/24hr"
     /\ response.kind = "http" /\ response.status = StatusOK) =>
        \A i \in 1..Len(response.body) :
            (/\ Malformed(response.body[i])
             /\ \A j \in 1..Len(response.body) :
                   j # i => ~Malformed(response.body[j]))
            => /\ returned.exc = "none"
               /\ returned.tokens =
                     FetchData([response EXCEPT !.body = Without(@, i)],
                               limit).tokens

SourceUnavailable == response.kind # "http" \/ response.status # StatusOK

\* C7: when the source is unavailable (an exception, a timeout, a status
\* other than 200), fetch_data and fetch_historical return the empty list
\* and raise nothing.
C7_UnavailableGivesEmpty ==
    (returned.called /\ SourceUnavailable) =>
        returned.exc = "none" /\ returned.tokens = <<>>

\* C7 witness: a call answered with a status other than 200 and a body that
\* holds a record.
C7_Witness ==
    /\ returned.called
    /\ response.kind = "http"
    /\ response.status # StatusOK
    /\ response.body # <<>>

\* C12: the symbol of every snapshot fetch_data returns is its pair name
\* without the last four characters (the suffix USDT), in uppercase, also
\* when the base part contains USDT.
C12_OnlyTrailingSuffixRemoved ==
    FetchDataReturned =>
        \A i \in 1..Len(returned.tokens) :
           LET tok == returned.tokens[i]
           IN  tok.symbol = Upper(SubSeq(tok.id, 1, Len(tok.id) - Len(USDT)))

\* The categories in the order of their priority, each with its symbols.
CategoriesInOrder ==
    <<[name |-> "Layer 1", symbols |-> {BTC, ETH, BNB, SOL, ADA, AVAX}],
      [name |-> "Stablecoin", symbols |-> {USDT, USDC, FDUSD, DAI}],
      [name |-> "DeFi", symbols |-> {UNI, AAVE, CAKE}],
      [name |-> "Meme", symbols |-> {DOGE, SHIB, PEPE}],
      [name |-> "NFT/Gaming", symbols |-> {AXS, MANA, SAND}]>>

\* The first category of the order that lists s, or Unknown.
FirstMatch(s) ==
    LET hits == {i \in 1..Len(CategoriesInOrder) :
                    s \in CategoriesInOrder[i].symbols}
    IN  IF hits = {} THEN "Unknown"
        ELSE CategoriesInOrder[CHOOSE i \in hits : \A j \in hits : i <= j].name

\* C13: the category of every snapshot is one of the six, and it is the
\* first category, in the order Layer 1, Stablecoin, DeFi, Meme, NFT/Gaming,
\* that lists the short symbol (the name of the snapshot), Unknown when none
\* does.
C13_CategoryIsFirstMatch ==
    FetchDataReturned =>
        \A i \in 1..Len(returned.tokens) :
           /\ returned.tokens[i].category \in
                  {"Layer 1", "Stablecoin", "DeFi", "Meme", "NFT/Gaming",
                   "Unknown"}
           /\ returned.tokens[i].category = FirstMatch(returned.tokens[i].name)

\* C13 witness: a Meme symbol and its snapshot.
C13_Witness ==
    /\ FetchDataReturned
    /\ Len(returned.tokens) = 1
    /\ returned.tokens[1].name = DOGE
    /\ returned.tokens[1].category = "Meme"

\* A candle fetch_historical can read: six fields at least, the open time,
\* the close and the volume numbers.
WellFormed(candle) ==
    /\ Len(candle) >= 6
    /\ candle[1].k = "num"
    /\ candle[5].k = "num"
    /\ candle[6].k = "num"

\* a is an earlier time than b.
Earlier(a, b) == a.sec < b.sec \/ (a.sec = b.sec /\ a.ms < b.ms)

AnalyzeReturned == result.returned /\ call.fn = "analyze_trend"

\* Where snapshot i of the input stands when the input is ordered by change
\* descending: behind the larger changes and the earlier equal ones.
GainerPosition(i) ==
    1 + Cardinality({j \in 1..Len(call.data) :
            \/ call.data[j].price_change_percentage_24h
                   > call.data[i].price_change_percentage_24h
            \/ /\ call.data[j].price_change_percentage_24h
                      = call.data[i].price_change_percentage_24h
               /\ j < i})

\* The same for the order by change ascending.
LoserPosition(i) ==
    1 + Cardinality({j \in 1..Len(call.data) :
            \/ call.data[j].price_change_percentage_24h
                   < call.data[i].price_change_percentage_24h
            \/ /\ call.data[j].price_change_percentage_24h
                      = call.data[i].price_change_percentage_24h
               /\ j < i})

\* The total_volume of the first n snapshots of the input.
RECURSIVE VolumeOfFirst(_)
VolumeOfFirst(n) ==
    IF n = 0 THEN 0 ELSE VolumeOfFirst(n - 1) + call.data[n].total_volume

EntryOf(i) ==
    [symbol |-> call.data[i].symbol, price |-> call.data[i].current_price,
     change |-> call.data[i].price_change_percentage_24h]

\* C14: for a non-empty list of N snapshots the report has total_tokens N,
\* total_volume the sum of the N volumes, top_gainers the first min(5, N)
\* snapshots of the input ordered by change descending and top_losers the
\* first min(5, N) ordered by change ascending (equal changes in input
\* order), so the first gainer has the largest change and the first loser
\* the smallest.
C14_TrendReport ==
    (AnalyzeReturned /\ call.data # <<>>) =>
        LET N == Len(call.data)
            r == result.value
        IN  /\ DOMAIN r = {"total_tokens", "total_volume", "top_gainers",
                           "top_losers"}
            /\ r.total_tokens = N
            /\ r.total_volume = VolumeOfFirst(N)
            /\ Len(r.top_gainers) = Min(TopCount, N)
            /\ Len(r.top_losers) = Min(TopCount, N)
            /\ \A i \in 1..N :
                  /\ GainerPosition(i) <= TopCount
                        => r.top_gainers[GainerPosition(i)] = EntryOf(i)
                  /\ LoserPosition(i) <= TopCount
                        => r.top_losers[LoserPosition(i)] = EntryOf(i)
                  /\ r.top_gainers[1].change
                        >= call.data[i].price_change_percentage_24h
                  /\ r.top_losers[1].change
                        <= call.data[i].price_change_percentage_24h

\* C14 witness: more than five snapshots, two of them with the same change,
\* and the three of the test in the test's order at the front.
C14_Witness ==
    /\ AnalyzeReturned
    /\ Len(call.data) > TopCount
    /\ call.data[1].symbol = BTC
    /\ call.data[2].symbol = ETH
    /\ call.data[3].symbol = DOGE
    /\ call.data[4].symbol = SOL
    /\ result.value.top_gainers[1].symbol = DOGE
    /\ result.value.top_losers[1].symbol = ETH

\* C15: for the empty list the report has total_tokens 0 and empty
\* top_gainers and top_losers, the three fields present.
C15_EmptyGivesZeroReport ==
    (AnalyzeReturned /\ call.data = <<>>) =>
        /\ {"total_tokens", "top_gainers", "top_losers"}
               \subseteq DOMAIN result.value
        /\ result.value.total_tokens = 0
        /\ result.value.top_gainers = <<>>
        /\ result.value.top_losers = <<>>

CorrelationReturned == result.returned /\ call.fn = "calculate_correlation"

CommonLength ==
    IF Len(call.docs1) < Len(call.docs2) THEN Len(call.docs1)
    ELSE Len(call.docs2)

\* All of the first n prices of s are equal.
Flat(s, n) == \A i, j \in 1..n : s[i] = s[j]

\* C16: the correlation is 0.0 when a series has fewer than 2 points, and
\* when one of the series, cut to the common length, has all prices equal.
C16_DegenerateGivesZero ==
    (/\ CorrelationReturned
     /\ \/ Len(call.docs1) < 2
        \/ Len(call.docs2) < 2
        \/ Flat(call.docs1, CommonLength)
        \/ Flat(call.docs2, CommonLength))
    => result.value = FZero

\* C17: the correlation of two series with at least 2 points each is the
\* correlation of their first min(lenA, lenB) points: what stands behind
\* them in the longer series has no part in it, nor in the means.
C17_OnlyCommonPrefix ==
    (CorrelationReturned /\ Len(call.docs1) >= 2 /\ Len(call.docs2) >= 2) =>
        result.value =
            CalculateCorrelation(SubSeq(call.docs1, 1, CommonLength),
                                 SubSeq(call.docs2, 1, CommonLength))

\* C17 witness: a series of three points against one of two, the third
\* point unlike the first two, and a correlation that is not the sentinel.
C17_Witness ==
    /\ CorrelationReturned
    /\ Len(call.docs1) = 3
    /\ Len(call.docs2) = 2
    /\ call.docs1[3] # call.docs1[1]
    /\ call.docs1[3] # call.docs1[2]
    /\ result.value # FZero

TokenDataReturned == result.returned /\ call.fn = "TokenData"

\* C18: a TokenData with a negative current_price is rejected with a
\* validation error; with current_price 0 and the other fields in range it
\* is accepted; an accepted TokenData has the symbol supplied in uppercase,
\* no lowercase letter left.
C18_PriceAndSymbolValidated ==
    TokenDataReturned =>
        LET f == call.fields
            r == result.value
        IN  /\ f.current_price < 0 => r.exc = "ValidationError"
            /\ (/\ f.current_price = 0
                 /\ Len(f.symbol) \in 1..SymbolMaxLen
                 /\ f.name # <<>>
                 /\ f.total_volume >= 0) => r.exc = "none"
            /\ r.exc = "none" =>
                  /\ r.tok.symbol = Upper(f.symbol)
                  /\ \A i \in 1..Len(r.tok.symbol) :
                        r.tok.symbol[i] \notin DOMAIN UpperOf

\* C18 witness: a lowercase symbol with the price 0, accepted as BTC.
C18_Witness ==
    /\ TokenDataReturned
    /\ call.fields.symbol = <<"b", "t", "c">>
    /\ call.fields.current_price = 0
    /\ result.value.exc = "none"
    /\ result.value.tok.symbol = BTC

\* Every fetch_loop thread that can run keeps being scheduled; nothing
\* obliges the user to click.
FairSpec ==
    /\ Spec
    /\ \A t \in Threads : WF_vars(FetchLoop(t))

\* ---------------------------------------------------- claims on the loop

\* A thread is alive from its start until fetch_loop returns.
Alive(t) == pc[t] \notin {"unborn", "done"}
AliveThreads == {t \in Threads : Alive(t)}

\* C2: at most one fetch_loop thread is alive at any moment.
C2_AtMostOneLoopThread == Cardinality(AliveThreads) <= 1

\* C3: a thread that is alive while the flag is clear (a stop was issued
\* while it ran) reads the flag at its next test and exits, whatever
\* requests follow.
C3_StopIsObserved ==
    \A t \in Threads : (Alive(t) /\ ~is_fetching) ~> (pc[t] = "done")

\* C8: while the flag is set no step starts a thread, and from a state with
\* the flag set and one live thread every step leaves exactly one live
\* thread; before any start the only step is a start, so a stop request on
\* an idle application changes nothing; while the flag is clear a step that
\* starts no thread leaves it clear.
C8_StartStopIdempotent ==
    [][/\ is_fetching => started' = started /\ AliveThreads' \subseteq AliveThreads
       /\ (is_fetching /\ Cardinality(AliveThreads) = 1)
             => Cardinality(AliveThreads') = 1
       /\ (started = 0 /\ started' = 0) => UNCHANGED vars
       /\ (~is_fetching /\ started' = started) => ~is_fetching']_vars

\* C8 witness: the flag is set again after a stop, the first thread has
\* exited and the second is the one live thread, in the middle of a cycle.
C8_Witness ==
    /\ is_fetching
    /\ started = 2
    /\ pc[1] = "done"
    /\ pc[2] = "save"

\* C9: a thread leaves fetch_loop only at the test of the flag and only when
\* the flag is clear; an empty result, an exception of fetch_data and an
\* exception while publishing all lead back to the test, and the test with
\* the flag set starts another cycle.
C9_LoopEndsOnlyOnStop ==
    [][\A t \in Threads :
          /\ (pc[t] # "done" /\ pc'[t] = "done")
                => (pc[t] = "while" /\ ~is_fetching)
          /\ (pc[t] = "while" /\ is_fetching /\ pc'[t] # pc[t])
                => pc'[t] = "fetch"
          /\ (pc[t] \in {"except", "sleep"} /\ pc'[t] # pc[t])
                => pc'[t] = "while"
          /\ (pc[t] = "after_lag" /\ pc'[t] # pc[t])
                => pc'[t] \in {"sleep", "except"}]_vars

\* C9 witness: an exception has been raised in a cycle and the thread is in
\* the handler, the flag still set.
C9_Witness == \E t \in Threads : pc[t] = "except" /\ is_fetching

\* C10: the consumer side (cached_data, the table callback, the store) is
\* entered with a non-empty result only and every non-empty result enters
\* it; an empty result leads to the status callback and writes nothing; the
\* loop never writes the flag; no empty list reaches cached_data, the table
\* callback or the store.
C10_PublishIffNonEmpty ==
    /\ [](\A t \in Threads :
             pc[t] \in {"cache", "after_table", "save"} => tokens[t] # <<>>)
    /\ [][/\ cached_data' # cached_data => cached_data' # <<>>
          /\ \A t \in Threads :
                /\ (pc[t] = "fetch" /\ pc'[t] = "cache") => tokens'[t] # <<>>
                /\ (pc[t] = "fetch" /\ pc'[t] = "after_lag")
                      => tokens'[t] = <<>>
                /\ (pc[t] = "fetch" /\ pc'[t] # pc[t])
                      => pc'[t] \in {"cache", "after_lag", "except"}
                /\ (pc[t] = "cache" /\ pc'[t] # pc[t])
                      => cached_data' = tokens[t] /\ pc'[t] = "after_table"
                /\ (pc[t] = "after_lag" /\ pc'[t] # pc[t])
                      => /\ pc'[t] \in {"sleep", "except"}
                         /\ UNCHANGED <<cached_data, store, is_fetching>>
          /\ store' # store
                => \E t \in Threads : pc[t] = "save" /\ pc'[t] = "after_live"
          /\ (pc' # pc /\ started' = started) => is_fetching' = is_fetching]_vars

\* C10 witness: a cycle with an empty result has gone through the status
\* branch: the thread sleeps, nothing was ever published, the flag is set.
C10_Witness ==
    /\ is_fetching
    /\ cached_data = <<>>
    /\ store = <<>>
    /\ started = 1
    /\ pc[1] = "sleep"

\* C11: in every state with the flag set, wherever the loop threads are
\* (fetching, scheduling the table update, saving to the store, sleeping),
\* the stop request can be taken at once, and taking it clears the flag and
\* touches nothing of the loop threads.
C11_StopNeverBlocked ==
    /\ [](is_fetching => ENABLED StopStream)
    /\ [][(is_fetching /\ ~is_fetching')
             => UNCHANGED <<started, pc, tokens, cached_data, store>>]_vars

\* C11 witness: the flag was cleared while a loop thread stands between the
\* table scheduling and save_to_mongodb.
C11_Witness ==
    /\ ~is_fetching
    /\ \E t \in Threads : pc[t] = "save" /\ tokens[t] # <<>>

\* The fields of a stored document that an update leaves alone.
KeptFields(doc) ==
    <<doc.token_id, doc.symbol, doc.name, doc.category, doc.market_cap_rank,
      doc.price_change_24h>>

\* C20: a stored document stays stored, and no step changes its
\* market_cap_rank, symbol, name, category or price_change_24h: they are
\* those of the snapshot that created the document, whatever the later
\* fetches say; a save of a snapshot whose id is stored writes the
\* snapshot's current_price, total_volume and price_change_percentage_24h.
C20_UpdateKeepsRank ==
    [][/\ \A id \in DOMAIN store :
             /\ id \in DOMAIN store'
             /\ KeptFields(store'[id]) = KeptFields(store[id])
       /\ \A t \in Threads :
             (pc[t] = "save" /\ pc'[t] = "after_live" /\ store' # store) =>
                \A i \in 1..Len(tokens[t]) :
                   LET snap == tokens[t][i]
                   IN  /\ store'[snap.id].current_price = snap.current_price
                       /\ store'[snap.id].total_volume = snap.total_volume
                       /\ store'[snap.id].price_change_percentage_24h
                              = snap.price_change_percentage_24h]_vars

\* C20 witness: BTCUSDT was saved first with rank 1, then updated from a
\* fetch that ranks it 2 behind DOGEUSDT: the new price is stored, the rank
\* and the 24h change are the first ones.
C20_Witness ==
    /\ DOMAIN store = {BTC \o USDT, DOGE \o USDT}
    /\ store[DOGE \o USDT].market_cap_rank = 1
    /\ store[BTC \o USDT].market_cap_rank = 1
    /\ store[BTC \o USDT].current_price = 2
    /\ store[BTC \o USDT].price_change_percentage_24h = 1
    /\ store[BTC \o USDT].price_change_24h = 0
    /\ Len(cached_data) = 2
    /\ cached_data[2].id = BTC \o USDT
    /\ cached_data[2].market_cap_rank = 2

\* C21: when the flag is clear and stays clear (a stop and no later start),
\* a moment comes when every thread has exited.  Until then it publishes at most once more: a
\* thread comes to the fetch only from the test of the flag with the flag
\* set, and to the write of cached_data only from the fetch, so with the
\* flag clear no new cycle begins.  A cycle that has begun runs to its end
\* whatever the flag says: a stop moves no thread, and only the test of the
\* flag leads out of the loop.  A thread that has exited stays exited, and
\* cached_data and the store are written by the steps of live threads
\* only, at the cache write and at the save.
C21_AtMostOneMoreCycle ==
    /\ (~is_fetching) ~> (is_fetching \/ AliveThreads = {})
    /\ [][/\ \A t \in Threads :
             /\ pc[t] = "done" => pc'[t] = "done"
             /\ (pc[t] \notin {"while", "done"}) => pc'[t] # "done"
             /\ (pc[t] = "while" /\ ~is_fetching /\ pc'[t] # pc[t])
                   => pc'[t] = "done"
             /\ (pc[t] # "fetch" /\ pc'[t] = "fetch")
                   => (pc[t] = "while" /\ is_fetching)
             /\ (pc[t] # "cache" /\ pc'[t] = "cache") => pc[t] = "fetch"
             /\ (pc[t] = "cache" /\ pc'[t] # pc[t]) => pc'[t] = "after_table"
             /\ (is_fetching /\ ~is_fetching') => pc'[t] = pc[t]
          /\ cached_data' # cached_data
                => \E t \in Threads : pc[t] = "cache" /\ pc'[t] = "after_table"
          /\ store' # store
                => \E t \in Threads : pc[t] = "save" /\ pc'[t] = "after_live"]_vars

\* C21 witness: the one thread has exited after a stop, and what it
\* published is in cached_data and in the store.
C21_Witness ==
    /\ ~is_fetching
    /\ started = 1
    /\ pc[1] = "done"
    /\ cached_data # <<>>
    /\ store # <<>>

====
